---- MODULE Spec2Model ----
(***************************************************************************)
(* Model of mcp_server_rabbitmq: the name validator and the transport      *)
(* establisher (connection.py) and the management-API client (admin.py).   *)
(*                                                                         *)
(* Strings are sequences of one-character atoms.  Two atoms stand for      *)
(* non-ASCII characters: "U+00E9" (e with acute accent, a letter) and      *)
(* "U+00BD" (vulgar fraction one half, numeric but neither letter nor      *)
(* digit).  The literal words of an endpoint ("queues", "contents", ...)   *)
(* are single atoms.                                                       *)
(***************************************************************************)
EXTENDS Integers, Sequences, FiniteSets, TLC

VARIABLES
  aPc,      \* administrative client: "idle", or "done" when a call has ended
  aCall,    \* the call: operation and arguments
  aOut,     \* what session.request did during the call
  aTrace,   \* the validations and requests of the call, in order
  aResult,  \* what the call returned or raised
  params,   \* transport establisher: self.parameters
  tPc,      \* "idle", "connecting", "connected" or "done"
  tTrace,   \* the connection attempts of the call, in order
  conn,     \* the connection the call created: "none", "open" or "closed"
  tResult,  \* what get_channel returned or raised
  tCalls,   \* calls of get_channel begun
  held,     \* open connections handed to the caller
  leaked    \* open connections no caller holds

adminVars == <<aPc, aCall, aOut, aTrace, aResult>>

transportVars == <<params, tPc, tTrace, conn, tResult, tCalls, held, leaked>>

vars == <<adminVars, transportVars>>

(***************************************************************************)
(* Characters                                                              *)
(***************************************************************************)
Alphabet ==
  {"a", "Z", "7", "-", "_", ".", ":", "~", " ", "/", "#", "%", "U+00E9", "U+00BD"}

\* Python's None, as a value distinct from every string over Alphabet.
None == << "<None>" >>

\* ord(c)
Ord(c) ==
  CASE c = "a" -> 97 [] c = "Z" -> 90 [] c = "7" -> 55 [] c = "-" -> 45
    [] c = "_" -> 95 [] c = "." -> 46 [] c = ":" -> 58 [] c = "~" -> 126
    [] c = " " -> 32 [] c = "/" -> 47 [] c = "#" -> 35 [] c = "%" -> 37
    [] c = "U+00E9" -> 233 [] c = "U+00BD" -> 189

\* str.isalpha, str.isdecimal, str.isdigit, str.isnumeric on one character
isalpha(c) == c \in {"a", "Z", "U+00E9"}
isdecimal(c) == c \in {"7"}
isdigit(c) == isdecimal(c)
isnumeric(c) == isdigit(c) \/ c \in {"U+00BD"}

\* str.isalnum: true if one of the four above is
isalnum(c) == isalpha(c) \/ isdecimal(c) \/ isdigit(c) \/ isnumeric(c)

\* str.isspace on one character
isspace(c) == c \in {" "}

\* str.strip(): what lies between the first and the last non-space character
strip(s) ==
  LET keep == {i \in 1..Len(s) : ~isspace(s[i])}
  IN IF keep = {} THEN <<>>
     ELSE SubSeq(s, CHOOSE i \in keep : \A j \in keep : i <= j,
                    CHOOSE i \in keep : \A j \in keep : i >= j)

(***************************************************************************)
(* connection.py: validate_rabbitmq_name                                   *)
(***************************************************************************)
MaxNameLen == 255

NameChars == {"-", "_", ".", ":"}

NameLenOK(name) == ~(Len(name) > MaxNameLen)

NameCharOK(c) == isalnum(c) \/ c \in NameChars

\* "ok" when the function returns normally, else which ValueError it raises;
\* the three checks run in the order of the source.
validate_rabbitmq_name(name) ==
  IF name = <<>> \/ strip(name) = <<>> THEN "empty"
  ELSE IF ~(\A i \in 1..Len(name) : NameCharOK(name[i])) THEN "chars"
  ELSE IF ~NameLenOK(name) THEN "length"
  ELSE "ok"

(***************************************************************************)
(* requests.utils.quote(s, safe=...) and its inverse                       *)
(***************************************************************************)
\* characters quote never encodes: ASCII letters, digits and "_.-~"
AlwaysSafe == {"a", "Z", "7", "_", ".", "-", "~"}

HexDigits == <<"0", "1", "2", "3", "4", "5", "6", "7",
               "8", "9", "A", "B", "C", "D", "E", "F">>

HexLower == <<"0", "1", "2", "3", "4", "5", "6", "7",
              "8", "9", "a", "b", "c", "d", "e", "f">>

IsHex(h) == \E i \in 1..16 : HexDigits[i] = h \/ HexLower[i] = h

HexVal(h) == (CHOOSE i \in 1..16 : HexDigits[i] = h \/ HexLower[i] = h) - 1

\* the concatenation of a sequence of sequences
RECURSIVE Flatten(_)
Flatten(ss) ==
  IF ss = <<>> THEN <<>>
  ELSE IF Len(ss) = 1 THEN ss[1]
  ELSE LET m == Len(ss) \div 2
       IN Flatten(SubSeq(ss, 1, m)) \o Flatten(SubSeq(ss, m + 1, Len(ss)))

\* UTF-8 bytes of a code point below 2048
Utf8(cp) == IF cp < 128 THEN <<cp>> ELSE <<192 + (cp \div 64), 128 + (cp % 64)>>

PctByte(b) == <<"%", HexDigits[(b \div 16) + 1], HexDigits[(b % 16) + 1]>>

QuoteChar(c, safe) ==
  IF c \in AlwaysSafe \cup safe THEN <<c>>
  ELSE LET bs == Utf8(Ord(c)) IN Flatten([i \in 1..Len(bs) |-> PctByte(bs[i])])

\* quote(s, safe): character by character
quote(s, safe) == Flatten([i \in 1..Len(s) |-> QuoteChar(s[i], safe)])

\* quote's default: safe="/"
SafeDefault == {"/"}

\* The safe set the administrative client passes: safe="".
SafeArg == {}

\* "%" followed by two hex digits is an escape; any other character,
\* a "%" that starts no escape included, stands for itself.
EscapeAt(s, i) ==
  i >= 1 /\ i + 2 <= Len(s) /\ s[i] = "%" /\ IsHex(s[i + 1]) /\ IsHex(s[i + 2])

\* the bytes a quoted string stands for
UnquoteBytes(s) ==
  Flatten([i \in 1..Len(s) |->
     IF EscapeAt(s, i) THEN <<16 * HexVal(s[i + 1]) + HexVal(s[i + 2])>>
     ELSE IF EscapeAt(s, i - 1) \/ EscapeAt(s, i - 2) THEN <<>>
     ELSE <<Ord(s[i])>>])

Chr(cp) == CHOOSE c \in Alphabet : Ord(c) = cp

\* UTF-8 decoding of one- and two-byte sequences
Utf8Decode(bs) ==
  Flatten([i \in 1..Len(bs) |->
     IF bs[i] < 128 THEN <<Chr(bs[i])>>
     ELSE IF bs[i] >= 192 THEN <<Chr((bs[i] - 192) * 64 + (bs[i + 1] - 128))>>
     ELSE <<>>])

\* unquote(s)
unquote(s) == Utf8Decode(UnquoteBytes(s))

\* an f-string "a/b/c" of its parts
RECURSIVE JoinPath(_)
JoinPath(parts) ==
  IF Len(parts) = 1 THEN parts[1]
  ELSE parts[1] \o <<"/">> \o JoinPath(Tail(parts))

\* path.split("/")
SplitPath(s) ==
  LET seps == {i \in 1..Len(s) : s[i] = "/"}
      n == Cardinality(seps)
      Sep(k) == IF k = 0 THEN 0
                ELSE IF k = n + 1 THEN Len(s) + 1
                ELSE CHOOSE i \in seps : Cardinality({j \in seps : j < i}) = k - 1
  IN [k \in 1..(n + 1) |-> SubSeq(s, Sep(k - 1) + 1, Sep(k) - 1)]

(***************************************************************************)
(* Exception classes: every class an exception is an instance of           *)
(* (requests.exceptions, json and the builtins they derive from).          *)
(***************************************************************************)
Supers(e) ==
  CASE e = "requests.ConnectTimeout" ->
         {"requests.ConnectTimeout", "requests.ConnectionError", "requests.Timeout",
          "requests.RequestException", "OSError"}
    [] e = "requests.ReadTimeout" ->
         {"requests.ReadTimeout", "requests.Timeout", "requests.RequestException",
          "OSError"}
    [] e = "requests.ConnectionError" ->
         {"requests.ConnectionError", "requests.RequestException", "OSError"}
    [] e = "requests.SSLError" ->
         {"requests.SSLError", "requests.ConnectionError",
          "requests.RequestException", "OSError"}
    [] e = "requests.HTTPError" ->
         {"requests.HTTPError", "requests.RequestException", "OSError"}
    [] e = "requests.TooManyRedirects" ->
         {"requests.TooManyRedirects", "requests.RequestException", "OSError"}
    [] e = "requests.JSONDecodeError" ->
         {"requests.JSONDecodeError", "requests.RequestException", "OSError",
          "ValueError"}
    [] e = "ValueError" -> {"ValueError"}
    [] e = "TimeoutError" -> {"TimeoutError", "OSError"}
    [] e = "ConnectionError" -> {"ConnectionError", "OSError"}
    [] e = "RuntimeError" -> {"RuntimeError"}
    [] e = "pika.AMQPConnectionError" -> {"pika.AMQPConnectionError", "pika.AMQPError"}
    [] e = "pika.ProbableAuthenticationError" ->
         {"pika.ProbableAuthenticationError", "pika.AMQPConnectionError",
          "pika.AMQPError"}
    [] e = "pika.ChannelClosedByBroker" ->
         {"pika.ChannelClosedByBroker", "pika.ChannelClosed", "pika.ChannelError",
          "pika.AMQPError"}
    [] e = "pika.ConnectionClosedByBroker" ->
         {"pika.ConnectionClosedByBroker", "pika.ConnectionClosed",
          "pika.AMQPConnectionError", "pika.AMQPError"}
    [] e = "TypeError" -> {"TypeError"}

IsInstance(e, cls) == cls = "Exception" \/ cls \in Supers(e)

\* A raised exception: its type and the exception it was raised from.
Raise(exc, cause) == [kind |-> "raise", exc |-> exc, cause |-> cause, value |-> "-"]

Return(value) == [kind |-> "return", exc |-> "-", cause |-> "-", value |-> value]

NoResult == [kind |-> "none", exc |-> "-", cause |-> "-", value |-> "-"]

\* The first except clause that matches wins; an exception no clause matches
\* propagates unchanged.
RECURSIVE Dispatch(_, _)
Dispatch(handlers, e) ==
  IF handlers = <<>> THEN Raise(e, "-")
  ELSE IF IsInstance(e, Head(handlers).catch) THEN Raise(Head(handlers).raise, e)
  ELSE Dispatch(Tail(handlers), e)

(***************************************************************************)
(* admin.py: RabbitMQAdmin._make_request                                   *)
(***************************************************************************)
\* What session.request can do: raise, or return a response with a status
\* and a body that is or is not JSON.
LibRaises ==
  {"requests.ConnectTimeout", "requests.ReadTimeout", "requests.ConnectionError",
   "requests.SSLError", "requests.TooManyRedirects"}

\* statuses of a response, and those whose body the model lets be JSON or not
Statuses == {200, 304, 404, 500}

BodyStatuses == {200, 304}

NoOutcome == [raises |-> "-", status |-> 0, json |-> FALSE]

LibOutcomes ==
  {[raises |-> e, status |-> 0, json |-> FALSE] : e \in LibRaises}
  \cup {[raises |-> "none", status |-> s, json |-> j] :
          s \in BodyStatuses, j \in BOOLEAN}
  \cup {[raises |-> "none", status |-> s, json |-> FALSE] : s \in Statuses \ BodyStatuses}

\* Response.raise_for_status raises HTTPError for 4xx and 5xx
RaisesForStatus(status) == 400 <= status /\ status < 600

\* the except clauses of _make_request, in source order
RequestHandlersSwapped ==
  << [catch |-> "requests.ConnectionError", raise |-> "ConnectionError"],
     [catch |-> "requests.Timeout", raise |-> "TimeoutError"],
     [catch |-> "requests.HTTPError", raise |-> "RuntimeError"] >>

RequestHandlers ==
  << [catch |-> "requests.Timeout", raise |-> "TimeoutError"],
     [catch |-> "requests.ConnectionError", raise |-> "ConnectionError"],
     [catch |-> "requests.HTTPError", raise |-> "RuntimeError"] >>

ValidateEv(name, ok) ==
  [ev |-> "validate", name |-> name, ok |-> ok, method |-> "-", endpoint |-> <<>>]

RequestEv(method, endpoint) ==
  [ev |-> "request", name |-> <<>>, ok |-> TRUE, method |-> method, endpoint |-> endpoint]

\* A handler's run: its events, its result and what the library did.
Ran(trace, result, out) == [trace |-> trace, result |-> result, out |-> out]

\* _make_request when session.request behaves as `out`, retrying once after
\* a failure
make_request_retry(method, endpoint, out) ==
  LET r == IF out.raises # "none" THEN Dispatch(RequestHandlers, out.raises)
           ELSE IF RaisesForStatus(out.status)
                THEN Dispatch(RequestHandlers, "requests.HTTPError")
           ELSE Return("response")
  IN Ran(IF r.kind = "raise"
         THEN <<RequestEv(method, endpoint), RequestEv(method, endpoint)>>
         ELSE <<RequestEv(method, endpoint)>>, r, out)

\* _make_request when session.request behaves as `out`: one request; an
\* exception of the request or of raise_for_status goes through the except
\* clauses.
make_request(method, endpoint, out) ==
  Ran(<<RequestEv(method, endpoint)>>,
      IF out.raises # "none" THEN Dispatch(RequestHandlers, out.raises)
      ELSE IF RaisesForStatus(out.status)
           THEN Dispatch(RequestHandlers, "requests.HTTPError")
      ELSE Return("response"),
      out)

\* return response.json()
json(r) ==
  IF r.result.kind # "return" THEN r
  ELSE IF r.out.json THEN [r EXCEPT !.result = Return("json")]
  ELSE [r EXCEPT !.result = Raise("requests.JSONDecodeError", "-")]

\* a handler that falls off its end: returns None
none(r) == IF r.result.kind # "return" THEN r ELSE [r EXCEPT !.result = Return("None")]

\* validate_rabbitmq_name(name, ...) followed by the rest of the handler
validated(name, rest) ==
  IF validate_rabbitmq_name(name) # "ok"
  THEN Ran(<<ValidateEv(name, FALSE)>>, Raise("ValueError", "-"), NoOutcome)
  ELSE [rest EXCEPT !.trace = <<ValidateEv(name, TRUE)>> \o @]

\* Python truthiness of an Optional[str]
truthy(x) == x # None /\ x # <<>>

(***************************************************************************)
(* admin.py: the public operations                                         *)
(***************************************************************************)
list_queues(out) == json(make_request("GET", <<"queues">>, out))

list_exchanges(out) == json(make_request("GET", <<"exchanges">>, out))

get_queue_info(queue, vhost, out) ==
  LET vhost_encoded == quote(vhost, SafeArg)
      queue_encoded == quote(queue, SafeArg)
  IN json(make_request("GET", JoinPath(<< <<"queues">>, vhost_encoded, queue_encoded >>), out))

delete_queue_unvalidated(queue, vhost, out) ==
  LET vhost_encoded == quote(vhost, SafeArg)
      queue_encoded == quote(queue, SafeArg)
  IN none(make_request("DELETE",
                       JoinPath(<< <<"queues">>, vhost_encoded, queue_encoded >>), out))

delete_queue(queue, vhost, out) ==
  LET vhost_encoded == quote(vhost, SafeArg)
      queue_encoded == quote(queue, SafeArg)
  IN validated(queue,
       none(make_request("DELETE",
                         JoinPath(<< <<"queues">>, vhost_encoded, queue_encoded >>), out)))

purge_queue(queue, vhost, out) ==
  LET vhost_encoded == quote(vhost, SafeArg)
      queue_encoded == quote(queue, SafeArg)
  IN validated(queue,
       none(make_request("DELETE",
                         JoinPath(<< <<"queues">>, vhost_encoded, queue_encoded,
                                     <<"contents">> >>), out)))

get_exchange_info(exchange, vhost, out) ==
  LET vhost_encoded == quote(vhost, SafeArg)
      exchange_encoded == quote(exchange, SafeArg)
  IN json(make_request("GET",
                       JoinPath(<< <<"exchanges">>, vhost_encoded, exchange_encoded >>), out))

delete_exchange(exchange, vhost, out) ==
  LET vhost_encoded == quote(vhost, SafeArg)
      exchange_encoded == quote(exchange, SafeArg)
  IN validated(exchange,
       none(make_request("DELETE",
                         JoinPath(<< <<"exchanges">>, vhost_encoded, exchange_encoded >>),
                         out)))

\* get_bindings with the exchange tested before the queue
get_bindings_exchange_first(queue, exchange, vhost, out) ==
  LET vhost_encoded == quote(vhost, SafeArg)
  IN IF truthy(exchange)
     THEN validated(exchange,
            json(make_request("GET",
                   JoinPath(<< <<"exchanges">>, vhost_encoded, quote(exchange, SafeArg),
                               <<"bindings">>, <<"source">> >>), out)))
     ELSE IF truthy(queue)
     THEN validated(queue,
            json(make_request("GET",
                   JoinPath(<< <<"queues">>, vhost_encoded, quote(queue, SafeArg),
                               <<"bindings">> >>), out)))
     ELSE json(make_request("GET", JoinPath(<< <<"bindings">>, vhost_encoded >>), out))

\* get_bindings with `is not None` in place of the truth tests
get_bindings_not_none(queue, exchange, vhost, out) ==
  LET vhost_encoded == quote(vhost, SafeArg)
  IN IF queue # None
     THEN validated(queue,
            json(make_request("GET",
                   JoinPath(<< <<"queues">>, vhost_encoded, quote(queue, SafeArg),
                               <<"bindings">> >>), out)))
     ELSE IF exchange # None
     THEN validated(exchange,
            json(make_request("GET",
                   JoinPath(<< <<"exchanges">>, vhost_encoded, quote(exchange, SafeArg),
                               <<"bindings">>, <<"source">> >>), out)))
     ELSE json(make_request("GET", JoinPath(<< <<"bindings">>, vhost_encoded >>), out))

get_bindings(queue, exchange, vhost, out) ==
  LET vhost_encoded == quote(vhost, SafeArg)
  IN IF truthy(queue)
     THEN validated(queue,
            json(make_request("GET",
                   JoinPath(<< <<"queues">>, vhost_encoded, quote(queue, SafeArg),
                               <<"bindings">> >>), out)))
     ELSE IF truthy(exchange)
     THEN validated(exchange,
            json(make_request("GET",
                   JoinPath(<< <<"exchanges">>, vhost_encoded, quote(exchange, SafeArg),
                               <<"bindings">>, <<"source">> >>), out)))
     ELSE json(make_request("GET", JoinPath(<< <<"bindings">>, vhost_encoded >>), out))

get_overview(out) == json(make_request("GET", <<"overview">>, out))

(***************************************************************************)
(* Inputs                                                                  *)
(***************************************************************************)
MaxShortLen == 1

MaxCalls == 3

Pad(n) == [i \in 1..n |-> "a"]

ShortNames == UNION {[1..n -> Alphabet] : n \in 0..MaxShortLen}

SampleNames ==
  { <<"a", " ", "Z">>, <<"a", "-", ".", "7", ":", "Z">>, <<" ", " ">>, <<" ", "a", " ">>,
    <<"a", "/", "Z">>, <<".", ".">>,
    Pad(MaxNameLen - 1) \o <<":">>, Pad(MaxNameLen) \o <<":">>,
    Pad(MaxNameLen - 1) \o <<"#">>, Pad(MaxNameLen) \o <<" ">> }

Names == ShortNames \cup SampleNames

DefaultVhost == <<"/">>

Vhosts == {DefaultVhost, <<"a", "/", "%", "7", "a">>, <<"U+00E9", " ", ".">>}

\* the other argument of get_bindings when one ranges over Names
FewArgs == {None, <<>>, <<"a">>, <<"#">>}

BindingArgs ==
  ((Names \cup {None}) \X FewArgs) \cup (FewArgs \X (Names \cup {None}))

(***************************************************************************)
(* Administrative client: one action per public operation                  *)
(***************************************************************************)
Call(op, queue, exchange, vhost) ==
  [op |-> op, queue |-> queue, exchange |-> exchange, vhost |-> vhost]

NoCall == Call("-", None, None, None)

Finish(call, r) ==
  /\ aPc' = "done"
  /\ aCall' = call
  /\ aTrace' = r.trace
  /\ aResult' = r.result
  /\ aOut' = r.out
  /\ UNCHANGED transportVars

ListQueues ==
  /\ aPc = "idle"
  /\ \E out \in LibOutcomes : \E r \in {list_queues(out)} : Finish(Call("list_queues", None, None, None), r)

ListExchanges ==
  /\ aPc = "idle"
  /\ \E out \in LibOutcomes :
       \E r \in {list_exchanges(out)} : Finish(Call("list_exchanges", None, None, None), r)

GetQueueInfo ==
  /\ aPc = "idle"
  /\ \E queue \in Names, vhost \in Vhosts, out \in LibOutcomes :
       \E r \in {get_queue_info(queue, vhost, out)} : Finish(Call("get_queue_info", queue, None, vhost), r)

DeleteQueue ==
  /\ aPc = "idle"
  /\ \E queue \in Names, vhost \in Vhosts, out \in LibOutcomes :
       \E r \in {delete_queue(queue, vhost, out)} : Finish(Call("delete_queue", queue, None, vhost), r)

PurgeQueue ==
  /\ aPc = "idle"
  /\ \E queue \in Names, vhost \in Vhosts, out \in LibOutcomes :
       \E r \in {purge_queue(queue, vhost, out)} : Finish(Call("purge_queue", queue, None, vhost), r)

GetExchangeInfo ==
  /\ aPc = "idle"
  /\ \E exchange \in Names, vhost \in Vhosts, out \in LibOutcomes :
       \E r \in {get_exchange_info(exchange, vhost, out)} : Finish(Call("get_exchange_info", None, exchange, vhost), r)

DeleteExchange ==
  /\ aPc = "idle"
  /\ \E exchange \in Names, vhost \in Vhosts, out \in LibOutcomes :
       \E r \in {delete_exchange(exchange, vhost, out)} : Finish(Call("delete_exchange", None, exchange, vhost), r)

GetBindings ==
  /\ aPc = "idle"
  /\ \E qe \in BindingArgs, vhost \in Vhosts, out \in LibOutcomes :
       \E r \in {get_bindings(qe[1], qe[2], vhost, out)} : Finish(Call("get_bindings", qe[1], qe[2], vhost), r)

GetOverview ==
  /\ aPc = "idle"
  /\ \E out \in LibOutcomes : \E r \in {get_overview(out)} : Finish(Call("get_overview", None, None, None), r)

\* close(): self.session.close(); the session stays usable afterwards
Close ==
  /\ aPc = "idle"
  /\ aPc' = "done"
  /\ aCall' = Call("close", None, None, None)
  /\ aTrace' = <<>>
  /\ aResult' = Return("None")
  /\ aOut' = NoOutcome
  /\ UNCHANGED transportVars

\* the call has ended and the caller has its result
AdminReturn ==
  /\ aPc = "done"
  /\ aPc' = "idle"
  /\ aCall' = NoCall
  /\ aTrace' = <<>>
  /\ aResult' = NoResult
  /\ aOut' = NoOutcome
  /\ UNCHANGED transportVars

(***************************************************************************)
(* connection.py: RabbitMQConnection                                       *)
(***************************************************************************)
\* __init__: pika.URLParameters(url), with pika's defaults for the retry policy
InitParameters ==
  [connection_attempts |-> 1, retry_delay |-> 2, socket_timeout |-> 10]

\* get_channel leaving the attempts as they are
SetRetryPolicyKeepAttempts(p) ==
  [p EXCEPT !.retry_delay = 2, !.socket_timeout = 10]

\* get_channel: the three assignments to self.parameters
SetRetryPolicy(p) ==
  [p EXCEPT !.connection_attempts = 3, !.retry_delay = 2, !.socket_timeout = 10]

\* the except clauses of get_channel, in source order
ChannelHandlers ==
  << [catch |-> "pika.AMQPConnectionError", raise |-> "ConnectionError"],
     [catch |-> "Exception", raise |-> "RuntimeError"] >>

\* how one connection attempt can fail
AttemptFailures == {"pika.AMQPConnectionError", "pika.ProbableAuthenticationError"}

\* how connection.channel() can fail, and whether the connection is still
\* open afterwards
ChannelFailures ==
  { [exc |-> "pika.ChannelClosedByBroker", conn |-> "open"],
    [exc |-> "TypeError", conn |-> "open"],
    [exc |-> "pika.ConnectionClosedByBroker", conn |-> "closed"] }

\* get_channel is entered: the retry policy is set and BlockingConnection
\* starts connecting
GetChannel ==
  /\ tPc = "idle"
  /\ tCalls < MaxCalls
  /\ tCalls' = tCalls + 1
  /\ params' = SetRetryPolicy(params)
  /\ tPc' = "connecting"
  /\ tTrace' = <<>>
  /\ conn' = "none"
  /\ tResult' = NoResult
  /\ UNCHANGED <<held, leaked, adminVars>>

\* BlockingConnection(self.parameters): an attempt fails; the last one makes
\* the constructor raise, which the first except clause turns into
\* ConnectionError
AttemptFails ==
  /\ tPc = "connecting"
  /\ Len(tTrace) < params.connection_attempts
  /\ \E e \in AttemptFailures :
       /\ tTrace' = Append(tTrace, "refused")
       /\ IF Len(tTrace) + 1 = params.connection_attempts
          THEN tPc' = "done" /\ tResult' = Dispatch(ChannelHandlers, e)
          ELSE tPc' = "connecting" /\ tResult' = tResult
  /\ UNCHANGED <<params, conn, tCalls, held, leaked, adminVars>>

\* BlockingConnection(self.parameters): an attempt succeeds
AttemptSucceeds ==
  /\ tPc = "connecting"
  /\ Len(tTrace) < params.connection_attempts
  /\ tTrace' = Append(tTrace, "accepted")
  /\ conn' = "open"
  /\ tPc' = "connected"
  /\ UNCHANGED <<params, tResult, tCalls, held, leaked, adminVars>>

\* BlockingConnection(self.parameters) raises something that is no
\* AMQPConnectionError before any attempt
ConstructorFails ==
  /\ tPc = "connecting"
  /\ tTrace = <<>>
  /\ tPc' = "done"
  /\ tResult' = Dispatch(ChannelHandlers, "TypeError")
  /\ UNCHANGED <<params, tTrace, conn, tCalls, held, leaked, adminVars>>

\* connection.channel() succeeds: return connection, channel
ChannelOpens ==
  /\ tPc = "connected"
  /\ tPc' = "done"
  /\ tResult' = Return("connection,channel")
  /\ held' = held + 1
  /\ UNCHANGED <<params, tTrace, conn, tCalls, leaked, adminVars>>

\* connection.channel() raises: the except clauses run, and nothing closes
\* the connection
ChannelFails ==
  /\ tPc = "connected"
  /\ \E f \in ChannelFailures :
       /\ conn' = f.conn
       /\ tResult' = Dispatch(ChannelHandlers, f.exc)
       /\ leaked' = IF f.conn = "open" THEN leaked + 1 ELSE leaked
  /\ tPc' = "done"
  /\ UNCHANGED <<params, tTrace, tCalls, held, adminVars>>

\* the call has ended and the caller has its result
TransportReturn ==
  /\ tPc = "done"
  /\ tPc' = "idle"
  /\ UNCHANGED <<params, tTrace, conn, tResult, tCalls, held, leaked, adminVars>>

\* the caller closes a connection it was handed
CallerCloses ==
  /\ tPc = "idle"
  /\ held > 0
  /\ held' = held - 1
  /\ UNCHANGED <<params, tPc, tTrace, conn, tResult, tCalls, leaked, adminVars>>

(***************************************************************************)
(* Specifications                                                          *)
(***************************************************************************)
Init ==
  /\ aPc = "idle"
  /\ aCall = NoCall
  /\ aOut = NoOutcome
  /\ aTrace = <<>>
  /\ aResult = NoResult
  /\ params = InitParameters
  /\ tPc = "idle"
  /\ tTrace = <<>>
  /\ conn = "none"
  /\ tResult = NoResult
  /\ tCalls = 0
  /\ held = 0
  /\ leaked = 0

Next ==
  \/ ListQueues
  \/ ListExchanges
  \/ GetQueueInfo
  \/ DeleteQueue
  \/ PurgeQueue
  \/ GetExchangeInfo
  \/ DeleteExchange
  \/ GetBindings
  \/ GetOverview
  \/ Close
  \/ AdminReturn

\* the administrative client
Spec == Init /\ [][Next]_vars

NextTransport ==
  \/ GetChannel
  \/ AttemptFails
  \/ AttemptSucceeds
  \/ ConstructorFails
  \/ ChannelOpens
  \/ ChannelFails
  \/ TransportReturn
  \/ CallerCloses

\* the transport establisher
SpecTransport == Init /\ [][NextTransport]_vars

(***************************************************************************)
(* Vocabulary of the properties                                            *)
(***************************************************************************)
Requests(trace) == SelectSeq(trace, LAMBDA ev : ev.ev = "request")

AdminDone == aPc = "done"

Raised(result, exc) == result.kind = "raise" /\ result.exc = exc

\* a literal word of a path, and a segment that encodes a value
Lit(w) == [lit |-> w, val |-> <<>>]
Enc(v) == [lit |-> "", val |-> v]

\* The endpoint has exactly the segments of `shape`: each literal word as it
\* is, each value as a segment that decodes to it.
PathMatches(endpoint, shape) ==
  LET segs == SplitPath(endpoint)
  IN /\ Len(segs) = Len(shape)
     /\ \A k \in 1..Len(shape) :
          IF shape[k].lit # "" THEN segs[k] = <<shape[k].lit>>
          ELSE unquote(segs[k]) = shape[k].val

MutatingOps == {"delete_queue", "purge_queue", "delete_exchange"}

\* the resource name a mutating call is about
TargetName(call) == IF call.op = "delete_exchange" THEN call.exchange ELSE call.queue

\* C1: delete_queue, purge_queue and delete_exchange raise ValueError and issue
\* no request when validate_rabbitmq_name rejects the name, and every request
\* they issue comes after the successful validation of the call's name.
C1_ValidateBeforeRequest ==
  (AdminDone /\ aCall.op \in MutatingOps) =>
    LET name == TargetName(aCall)
    IN /\ validate_rabbitmq_name(name) # "ok" =>
            (Raised(aResult, "ValueError") /\ Requests(aTrace) = <<>>)
       /\ \A i \in 1..Len(aTrace) :
            aTrace[i].ev = "request" =>
              \E j \in 1..(i - 1) : aTrace[j] = ValidateEv(name, TRUE)

\* a purge of a queue whose name has a disallowed character ended in ValueError
C1_Witness ==
  /\ AdminDone
  /\ aCall.op = "purge_queue"
  /\ aCall.queue = <<"a", " ", "Z">>
  /\ Raised(aResult, "ValueError")
  /\ Requests(aTrace) = <<>>

\* the claim's reading of "a letter, a digit": a character that is alphabetic,
\* or a decimal digit or digit
IsLetter(c) == isalpha(c)
IsDigit(c) == isdecimal(c) \/ isdigit(c)

NameAccepted(name) ==
  /\ strip(name) # <<>>
  /\ \A i \in 1..Len(name) : IsLetter(name[i]) \/ IsDigit(name[i]) \/ name[i] \in {"-", "_", ".", ":"}
  /\ Len(name) <= 255

\* C2: validate_rabbitmq_name returns normally if and only if the name is
\* non-empty after trimming, every character is a letter, a digit or one of
\* - _ . : and the name has at most 255 characters.
C2_ValidIffLettersDigits ==
  (AdminDone /\ aTrace # <<>> /\ aTrace[1].ev = "validate") =>
    (aTrace[1].ok <=> NameAccepted(aTrace[1].name))

FiveKinds == {"ValueError", "ConnectionError", "TimeoutError", "RuntimeError"}

OneOfFive(result) ==
  \/ result.kind = "return"
  \/ result.kind = "raise" /\ \E k \in FiveKinds : IsInstance(result.exc, k)

\* C3: every public operation either returns or raises one of ValidationError
\* (ValueError), ConnectionFailure (ConnectionError), Timeout (TimeoutError),
\* HttpFailure and UnexpectedFailure (RuntimeError), whatever the library does.
C3_OnlyFiveKinds ==
  /\ AdminDone => OneOfFive(aResult)
  /\ tPc = "done" => OneOfFive(tResult)

IsTimeout(out) == out.raises # "none" /\ IsInstance(out.raises, "requests.Timeout")

IsConnError(out) ==
  out.raises # "none" /\ IsInstance(out.raises, "requests.ConnectionError")

\* The three failure kinds of _make_request, for a request that was issued,
\* given which statuses count as a failure.
FailureKinds(failing(_)) ==
  (AdminDone /\ Requests(aTrace) # <<>>) =>
    /\ IsTimeout(aOut) <=> Raised(aResult, "TimeoutError")
    /\ (IsConnError(aOut) /\ ~IsTimeout(aOut)) <=> Raised(aResult, "ConnectionError")
    /\ (aOut.raises = "none" /\ failing(aOut.status)) <=> Raised(aResult, "RuntimeError")
    /\ aResult.exc \in {"TimeoutError", "ConnectionError"} => aResult.cause = aOut.raises
    /\ Raised(aResult, "RuntimeError") => aResult.cause = "requests.HTTPError"

NonSuccess(status) == ~(200 <= status /\ status < 300)

ClientOrServerError(status) == 400 <= status /\ status < 600

\* C4 as stated: a timeout surfaces as TimeoutError (a connect timeout too), a
\* connection error as ConnectionError, a response with a non-success status
\* (any status outside 2xx) as RuntimeError, each with the original as cause.
C4_NonSuccessIsHttpFailure == FailureKinds(NonSuccess)

\* C4 amended: the same, with RuntimeError for a response with a 4xx or 5xx
\* status; a response with another status is returned.
C4_FailureKindsDistinct == FailureKinds(ClientOrServerError)

\* a connect timeout surfaced as TimeoutError, caused by the connect timeout
C4_Witness ==
  /\ AdminDone
  /\ aOut.raises = "requests.ConnectTimeout"
  /\ aResult = Raise("TimeoutError", "requests.ConnectTimeout")

\* get_bindings runs the queue branch when given(queue), else the exchange
\* branch when given(exchange), else the vhost-wide branch; a branch is the
\* validation of its name and then one GET, or the failed validation alone.
BindingsBranches(given(_)) ==
  (AdminDone /\ aCall.op = "get_bindings") =>
    LET q == aCall.queue
        e == aCall.exchange
        v == aCall.vhost
        Branch(name, shape) ==
          IF validate_rabbitmq_name(name) = "ok"
          THEN /\ Len(aTrace) = 2
               /\ aTrace[1] = ValidateEv(name, TRUE)
               /\ aTrace[2].ev = "request"
               /\ aTrace[2].method = "GET"
               /\ PathMatches(aTrace[2].endpoint, shape)
          ELSE /\ aTrace = <<ValidateEv(name, FALSE)>>
               /\ Raised(aResult, "ValueError")
    IN IF given(q)
       THEN Branch(q, <<Lit("queues"), Enc(v), Enc(q), Lit("bindings")>>)
       ELSE IF given(e)
       THEN Branch(e, <<Lit("exchanges"), Enc(v), Enc(e), Lit("bindings"), Lit("source")>>)
       ELSE /\ Len(aTrace) = 1
            /\ aTrace[1].ev = "request"
            /\ aTrace[1].method = "GET"
            /\ PathMatches(aTrace[1].endpoint, <<Lit("bindings"), Enc(v)>>)

Supplied(x) == x # None

\* C5 as stated: the queue branch runs when a queue is supplied, else the
\* exchange branch when an exchange is supplied, else the vhost-wide one; with
\* both supplied the exchange is neither validated nor used.
C5_BranchBySupplied == BindingsBranches(Supplied)

\* C5 amended: the same, where supplied means supplied and not the empty string.
C5_BranchByNonEmpty == BindingsBranches(truthy)

\* get_bindings with a valid queue and an invalid exchange issued its GET
C5_Witness ==
  /\ AdminDone
  /\ aCall.op = "get_bindings"
  /\ aCall.queue = <<"a", "-", ".", "7", ":", "Z">>
  /\ aCall.exchange = <<"#">>
  /\ Len(Requests(aTrace)) = 1
  /\ aResult.kind = "return"

RequestOps == {"list_queues", "list_exchanges", "get_queue_info", "delete_queue",
               "purge_queue", "get_exchange_info", "delete_exchange", "get_bindings",
               "get_overview"}

\* C6: no call issues more than one request; a call of an operation that
\* makes requests issues exactly one unless a validation failed, and then
\* none; a call that ended in TimeoutError, ConnectionError or RuntimeError
\* issued exactly one.
C6_NoRetry ==
  AdminDone =>
    LET n == Len(Requests(aTrace))
        failed == \E i \in 1..Len(aTrace) : aTrace[i].ev = "validate" /\ ~aTrace[i].ok
    IN /\ n <= 1
       /\ aCall.op \in RequestOps => (n = IF failed THEN 0 ELSE 1)
       /\ aResult.exc \in {"TimeoutError", "ConnectionError", "RuntimeError"} => n = 1

\* a delete that timed out ended after its one request
C6_Witness ==
  /\ AdminDone
  /\ aCall.op = "delete_queue"
  /\ Raised(aResult, "TimeoutError")
  /\ Len(Requests(aTrace)) = 1

C8_NoOpenConnectionOnError ==
  (tPc = "done" /\ tResult.kind = "raise") => conn # "open"

VhostOps == {"get_queue_info", "delete_queue", "purge_queue", "get_exchange_info",
             "delete_exchange", "get_bindings"}

\* the method and the segments of the endpoint table for a call
EndpointOf(call) ==
  LET q == call.queue
      e == call.exchange
      v == call.vhost
  IN CASE call.op = "get_queue_info" ->
            [method |-> "GET", shape |-> <<Lit("queues"), Enc(v), Enc(q)>>]
       [] call.op = "delete_queue" ->
            [method |-> "DELETE", shape |-> <<Lit("queues"), Enc(v), Enc(q)>>]
       [] call.op = "purge_queue" ->
            [method |-> "DELETE",
             shape |-> <<Lit("queues"), Enc(v), Enc(q), Lit("contents")>>]
       [] call.op = "get_exchange_info" ->
            [method |-> "GET", shape |-> <<Lit("exchanges"), Enc(v), Enc(e)>>]
       [] call.op = "delete_exchange" ->
            [method |-> "DELETE", shape |-> <<Lit("exchanges"), Enc(v), Enc(e)>>]
       [] call.op = "get_bindings" /\ truthy(q) ->
            [method |-> "GET",
             shape |-> <<Lit("queues"), Enc(v), Enc(q), Lit("bindings")>>]
       [] call.op = "get_bindings" /\ ~truthy(q) /\ truthy(e) ->
            [method |-> "GET",
             shape |-> <<Lit("exchanges"), Enc(v), Enc(e), Lit("bindings"), Lit("source")>>]
       [] call.op = "get_bindings" /\ ~truthy(q) /\ ~truthy(e) ->
            [method |-> "GET", shape |-> <<Lit("bindings"), Enc(v)>>]

\* C9: every request of an operation that takes a vhost has the method and
\* exactly the segments of the endpoint table, the vhost and the name each in
\* one segment that decodes to the original, and the default vhost as %2F.
C9_SegmentsEncoded ==
  (AdminDone /\ aCall.op \in VhostOps) =>
    \A i \in 1..Len(aTrace) :
      aTrace[i].ev = "request" =>
        /\ aTrace[i].method = EndpointOf(aCall).method
        /\ PathMatches(aTrace[i].endpoint, EndpointOf(aCall).shape)
        /\ aCall.vhost = DefaultVhost =>
             SplitPath(aTrace[i].endpoint)[2] = <<"%", "2", "F">>

\* a request for a queue and a vhost that both contain "/"
C9_Witness ==
  /\ AdminDone
  /\ aCall.op = "get_queue_info"
  /\ aCall.queue = <<"a", "/", "Z">>
  /\ aCall.vhost = <<"a", "/", "%", "7", "a">>
  /\ Len(Requests(aTrace)) = 1

\* C10: get_bindings never validates an empty string: with queue "" it takes
\* the exchange branch for a non-empty exchange and the vhost-wide branch for
\* exchange ""; a whitespace-only queue fails validation with no request; and
\* every name in a request path of get_bindings was validated successfully.
C10_EmptyStringNotGiven ==
  (AdminDone /\ aCall.op = "get_bindings") =>
    LET q == aCall.queue
        e == aCall.exchange
        v == aCall.vhost
    IN /\ \A i \in 1..Len(aTrace) : aTrace[i].ev = "validate" => aTrace[i].name # <<>>
       /\ (q = <<>> /\ e # None /\ e # <<>>) =>
            (aTrace[1].ev = "validate" /\ aTrace[1].name = e)
       /\ (q = <<>> /\ e = <<>>) =>
            /\ Len(aTrace) = 1
            /\ aTrace[1].ev = "request"
            /\ aTrace[1].method = "GET"
            /\ PathMatches(aTrace[1].endpoint, <<Lit("bindings"), Enc(v)>>)
       /\ (q # None /\ q # <<>> /\ strip(q) = <<>>) =>
            (aTrace = <<ValidateEv(q, FALSE)>> /\ Raised(aResult, "ValueError"))
       /\ \A i \in 1..Len(aTrace) :
            (aTrace[i].ev = "request" /\ Len(SplitPath(aTrace[i].endpoint)) > 2) =>
              \E j \in 1..(i - 1) :
                /\ aTrace[j].ev = "validate"
                /\ aTrace[j].ok
                /\ aTrace[j].name = unquote(SplitPath(aTrace[i].endpoint)[3])
                /\ validate_rabbitmq_name(aTrace[j].name) = "ok"

\* get_bindings with queue "" and exchange "a" asked for the exchange's bindings
C10_Witness ==
  /\ AdminDone
  /\ aCall.op = "get_bindings"
  /\ aCall.queue = <<>>
  /\ aCall.exchange = <<"a">>
  /\ Len(aTrace) = 2
  /\ PathMatches(aTrace[2].endpoint,
                 <<Lit("exchanges"), Enc(aCall.vhost), Enc(<<"a">>), Lit("bindings"),
                   Lit("source")>>)

====
